---- MODULE Spec2Model ----
(***************************************************************************)
(* RepoBase (src/src/base.repo.ts): a repository base class wrapping a     *)
(* MongoDB collection with schema validation, and its update-payload       *)
(* extraction extractUpdatePayload.                                        *)
(*                                                                         *)
(* Strings that the code inspects (property names) are sequences of        *)
(* one-character strings, so that startsWith("$") and includes(".") are    *)
(* computed.  JavaScript values are records with a kind; objects keep      *)
(* their own properties as a sequence of entries in insertion order.       *)
(* Property names are ordinary names (the accessor name __proto__ is       *)
(* outside the modelled domain).                                           *)
(***************************************************************************)
EXTENDS Integers, Sequences, FiniteSets, TLC

VARIABLES
    update,     \* the update expression held by the caller
    arg,        \* the update expression as it was handed to the call
    pc,         \* position of the current call
    outcome,    \* how the last extractUpdatePayload call ended
    extracted,  \* the accumulator of the last extractUpdatePayload call
    first,      \* the first extractUpdatePayload call made and its outcome
    seen,       \* how the calls before the last one ended
    schema,     \* this.schema of the repository
    call,       \* the repository operation under way and its arguments
    driver,     \* the call this operation made on the collection, if any
    result,     \* how the operation ended for its caller
    invalid,    \* the invalidResults the operation reported to its logger
    answer,     \* what the driver call of the operation came back with
    clock       \* the time new Date() gave the operation, 0 when it read none

repoVars == <<schema, call, driver, result, invalid, answer, clock>>
vars ==
    <<update, arg, pc, outcome, extracted, first, seen, schema, call, driver, result, invalid,
      answer, clock>>

----------------------------------------------------------------------------
(* Bounds of the model *)

\* most entries of an update expression
MaxEntries == 2
\* most entries of an update expression in the repeated-call specification
MaxCallEntries == 1
\* most entries of an update expression given to findOneAndUpdate
MaxUpdateEntries == 1
\* most documents the driver returns to find and aggregate
MaxResults == 2

----------------------------------------------------------------------------
(* JavaScript values.  A string value holds its characters; the fixed texts
   of messages are held in pieces. *)

Value(kind, str, num, ent) == [kind |-> kind, str |-> str, num |-> num, ent |-> ent]

Undefined == Value("undefined", <<>>, 0, <<>>)
Null == Value("null", <<>>, 0, <<>>)
Str(s) == Value("string", s, 0, <<>>)
Num(n) == Value("number", <<>>, n, <<>>)
DateVal(t) == Value("date", <<>>, t, <<>>)
\* a plain object: ent is the sequence of its own properties, in insertion order
Obj(ent) == Value("object", <<>>, 0, ent)
\* an array: ent holds its items, item i at index i - 1
Arr(items) == Value("array", <<>>, 0, items)

Entry(k, v) == [k |-> k, v |-> v]

\* typeof val
TypeOf(val) ==
    CASE val.kind \in {"null", "object", "array", "date"} -> "object"
      [] OTHER -> val.kind

Digits == <<"0", "1", "2", "3", "4", "5", "6", "7", "8", "9">>

IsDigit(c) == \E i \in DOMAIN Digits : Digits[i] = c
DigitOf(c) == (CHOOSE i \in DOMAIN Digits : Digits[i] = c) - 1

RECURSIVE NumberOf(_)
NumberOf(key) ==
    IF key = <<>> THEN 0
    ELSE 10 * NumberOf(SubSeq(key, 1, Len(key) - 1)) + DigitOf(key[Len(key)])

\* an integer-like property name (an array index): canonical decimal digits.
\* Names of up to nine digits are all below the largest index, 2^32 - 2; the
\* model holds no longer digit name.
IsArrayIndex(key) ==
    /\ Len(key) >= 1
    /\ Len(key) <= 9
    /\ \A i \in DOMAIN key : IsDigit(key[i])
    /\ (Len(key) = 1 \/ key[1] # "0")

\* the property name of array index i (i < 10 in this model)
IndexKey(i) == <<Digits[i + 1]>>

RECURSIVE SortByIndex(_)
SortByIndex(ent) ==
    IF ent = <<>> THEN <<>>
    ELSE LET m == CHOOSE i \in DOMAIN ent :
                    \A j \in DOMAIN ent : NumberOf(ent[i].k) <= NumberOf(ent[j].k)
         IN  <<ent[m]>> \o SortByIndex(SubSeq(ent, 1, m - 1) \o SubSeq(ent, m + 1, Len(ent)))

\* Object.entries(val): integer-like names first, ascending, then the other
\* names in insertion order; the items of an array under their indices
ObjectEntries(val) ==
    CASE val.kind = "object" ->
            SortByIndex(SelectSeq(val.ent, LAMBDA e : IsArrayIndex(e.k)))
                \o SelectSeq(val.ent, LAMBDA e : ~IsArrayIndex(e.k))
      [] val.kind = "array" ->
            [i \in DOMAIN val.ent |-> Entry(IndexKey(i - 1), val.ent[i])]
      [] OTHER -> <<>>

\* key.startsWith(prefix), prefix one character
StartsWith(key, c) == Len(key) >= 1 /\ key[1] = c

\* key.includes(c), c one character
Includes(key, c) == \E i \in DOMAIN key : key[i] = c

HasKey(ent, k) == \E i \in DOMAIN ent : ent[i].k = k
Get(ent, k) == ent[CHOOSE i \in DOMAIN ent : ent[i].k = k].v
KeysOf(ent) == {ent[i].k : i \in DOMAIN ent}

\* mutant of Put: a name already written keeps its first value
PutFirstWins(ent, k, v) == IF HasKey(ent, k) THEN ent ELSE Append(ent, Entry(k, v))

\* obj[k] = v on the property sequence ent
Put(ent, k, v) ==
    IF HasKey(ent, k)
    THEN [i \in DOMAIN ent |-> IF ent[i].k = k THEN Entry(k, v) ELSE ent[i]]
    ELSE Append(ent, Entry(k, v))

----------------------------------------------------------------------------
(* extractUpdatePayload *)

DOLLAR == "$"
DOT == "."

SetOp == <<"$", "s", "e", "t">>
UnsetOp == <<"$", "u", "n", "s", "e", "t">>
IncOp == <<"$", "i", "n", "c">>

\* mutant of DotNotationMessage: the field name is not quoted
DotNotationMessageUnquoted(fieldKey) ==
    <<"Dot notation keys are not supported yet: ">> \o fieldKey

\* `Dot notation keys are not supported yet: "${fieldKey}"`
DotNotationMessage(fieldKey) ==
    <<"Dot notation keys are not supported yet: ", "\"">> \o fieldKey \o <<"\"">>

\* mutant of NewAccumulator: the accumulator outlives the call
NewAccumulatorShared == extracted

\* const extracted = {}
NewAccumulator == <<>>

\* typeof val === "object" && val !== null
IsOperatorPayload(val) == TypeOf(val) = "object" /\ val.kind # "null"

\* mutant of NestedWrite: $unset writes the value it holds
NestedWriteVerbatim(key, fieldVal) == fieldVal

\* mutant of NestedWrite: an object value is unwrapped when its first key is
\* an operator
NestedWriteUnwrapped(key, fieldVal) ==
    IF key = UnsetOp THEN Undefined
    ELSE IF fieldVal.kind = "object" /\ fieldVal.ent # <<>> /\ StartsWith(fieldVal.ent[1].k, "$")
         THEN fieldVal.ent[1].v
         ELSE fieldVal

\* key === "$unset" ? undefined : fieldVal
NestedWrite(key, fieldVal) == IF key = UnsetOp THEN Undefined ELSE fieldVal

\* the state of one walk: the accumulator, and the error thrown if any
WalkState(ent, thrown, message) ==
    [extracted |-> ent, thrown |-> thrown, message |-> message]

Throw(st, fieldKey) ==
    WalkState(st.extracted, TRUE, DotNotationMessage(fieldKey))

\* the body of the inner loop, for one field of the operator entry `key`
WalkField(st, key, field) ==
    IF Includes(field.k, DOT)
    THEN Throw(st, field.k)
    ELSE WalkState(Put(st.extracted, field.k, NestedWrite(key, field.v)), FALSE, <<>>)

RECURSIVE WalkFields(_, _, _, _)
WalkFields(st, key, fields, i) ==
    IF st.thrown \/ i > Len(fields) THEN st
    ELSE WalkFields(WalkField(st, key, fields[i]), key, fields, i + 1)

\* the body of the outer loop, for one entry of the update expression
WalkEntry(st, e) ==
    IF StartsWith(e.k, DOLLAR)
    THEN IF IsOperatorPayload(e.v)
         THEN WalkFields(st, e.k, ObjectEntries(e.v), 1)
         ELSE st
    ELSE IF Includes(e.k, DOT)
         THEN Throw(st, e.k)
         ELSE WalkState(Put(st.extracted, e.k, e.v), FALSE, <<>>)

RECURSIVE WalkEntries(_, _, _)
WalkEntries(st, entries, i) ==
    IF st.thrown \/ i > Len(entries) THEN st
    ELSE WalkEntries(WalkEntry(st, entries[i]), entries, i + 1)

\* walk(update), from the accumulator acc
Walk(obj, acc) == WalkEntries(WalkState(acc, FALSE, <<>>), ObjectEntries(obj), 1)

\* the property name "message"
messageProp == <<"m", "e", "s", "s", "a", "g", "e">>

\* an error object: the name of its constructor and its own data properties
\* (the engine's stack trace is left out)
ErrorValue(class, ent) == [class |-> class, ent |-> ent]
NoError == ErrorValue("", <<>>)

\* mutant of ErrorObject: the error is built without its message
ErrorObjectNoMessage(text) == ErrorValue("Error", <<Entry(messageProp, Str(<<>>))>>)

\* new Error(text)
ErrorObject(text) == ErrorValue("Error", <<Entry(messageProp, Str(text))>>)

\* err.message
MessageOf(err) == Get(err.ent, messageProp).str

Returned(value) == [status |-> "returned", value |-> value, message |-> <<>>, error |-> NoError]
\* the call ended by `throw new Error(text)`
Threw(text) ==
    LET err == ErrorObject(text)
    IN  [status |-> "threw", value |-> <<>>, message |-> MessageOf(err), error |-> err]
NoOutcome == [status |-> "none", value |-> <<>>, message |-> <<>>, error |-> NoError]

\* how extractUpdatePayload(obj) ends, the walk having ended in state st
ExtractOutcome(st) ==
    IF st.thrown THEN Threw(st.message) ELSE Returned(st.extracted)

extractUpdatePayload(obj) == ExtractOutcome(Walk(obj, NewAccumulator))

\* the record of a call: the expression it was given and how it ended
CallRecord(made, obj, ended) == [made |-> made, update |-> obj, outcome |-> ended]
NoCall == CallRecord(FALSE, Obj(<<>>), NoOutcome)

----------------------------------------------------------------------------
(* Update expressions the calls are made with *)

name == <<"n", "a", "m", "e">>
count == <<"c", "o", "u", "n", "t">>
userName == <<"u", "s", "e", "r", ".", "n", "a", "m", "e">>
profileContactEmail == <<"p", "r", "o", "f", "i", "l", "e", ".", "c", "o", "n", "t", "a", "c", "t",
                         ".", "e", "m", "a", "i", "l">>
zero == <<"0">>

John == Str(<<"J", "o", "h", "n">>)
Alice == Str(<<"A", "l", "i", "c", "e">>)
\* a value whose own keys begin with "$" and contain "."
Deep == Obj(<<Entry(SetOp, Obj(<<Entry(<<"a", ".", "b">>, Null)>>))>>)

OperatorKeys == {SetOp, UnsetOp, IncOp}
NestedFields == {name, count, userName}
NestedValues == {Num(2), Deep}
DirectKeys == {name, profileContactEmail, zero}
DirectValues == {Alice, DateVal(1)}

\* the field mappings an operator entry carries
OperatorMappings ==
    {<<>>}
        \cup {<<Entry(f, v)>> : f \in NestedFields, v \in NestedValues}
        \cup {<<Entry(name, John), Entry(count, Null)>>,
              <<Entry(count, Null), Entry(userName, John)>>,
              <<Entry(profileContactEmail, John), Entry(userName, Null)>>}

\* what an operator entry holds: a mapping, or null, a scalar, a list
NonMappings == {Null, Str(<<"x">>), Arr(<<John>>)}
OperatorValues == {Obj(m) : m \in OperatorMappings} \cup NonMappings

TopEntries ==
    {Entry(k, v) : k \in OperatorKeys, v \in OperatorValues}
        \cup {Entry(k, v) : k \in DirectKeys, v \in DirectValues}

DistinctKeys(ent) == \A i, j \in DOMAIN ent : i # j => ent[i].k # ent[j].k

\* the update expressions of at most n entries, each entry from the set entries
UpdatesUpTo(n, entries) ==
    {Obj(ent) : ent \in {e \in UNION {[1..m -> entries] : m \in 0..n} : DistinctKeys(e)}}

Updates == UpdatesUpTo(MaxEntries, TopEntries)

----------------------------------------------------------------------------
(* The repository schema and its validation (zod objects) *)

status == <<"s", "t", "a", "t", "u", "s">>
archivedAt == <<"a", "r", "c", "h", "i", "v", "e", "d", "A", "t">>
last_attempt_at == <<"l", "a", "s", "t", "_", "a", "t", "t", "e", "m", "p", "t", "_", "a", "t">>
updated_at == <<"u", "p", "d", "a", "t", "e", "d", "_", "a", "t">>
created_at == <<"c", "r", "e", "a", "t", "e", "d", "_", "a", "t">>
id == <<"_", "i", "d">>

pending == Str(<<"p", "e", "n", "d", "i", "n", "g">>)
sent == Str(<<"s", "e", "n", "t">>)
failed == Str(<<"f", "a", "i", "l", "e", "d">>)

\* one field of an object schema; allowed is the value list of an enum
Field(k, type, optional, allowed) ==
    [k |-> k, type |-> type, optional |-> optional, allowed |-> allowed]

\* z.object({ name, status, count, archivedAt, last_attempt_at })
testSchema ==
    <<Field(name, "string", FALSE, {}),
      Field(status, "enum", FALSE, {pending, sent, failed}),
      Field(count, "number", TRUE, {}),
      Field(archivedAt, "date", TRUE, {}),
      Field(last_attempt_at, "date", TRUE, {})>>

\* a schema that also declares the fields insertOne and findOneAndUpdate
\* write: testSchema.extend({ _id, created_at, updated_at })
stampedSchema ==
    testSchema \o <<Field(id, "objectid", TRUE, {}),
                    Field(created_at, "date", TRUE, {}),
                    Field(updated_at, "date", TRUE, {})>>

\* schema.partial(): every field optional
Partial(shape) == [i \in DOMAIN shape |-> [shape[i] EXCEPT !.optional = TRUE]]

InShape(shape, k) == \E i \in DOMAIN shape : shape[i].k = k

\* whether value v passes the type of field f
TypeAccepts(f, v) ==
    CASE f.type = "string" -> v.kind = "string"
      [] f.type = "enum" -> v \in f.allowed
      [] f.type = "number" -> v.kind = "number"
      [] f.type = "date" -> v.kind = "date"
      [] f.type = "objectid" -> v.kind = "objectid"
      [] OTHER -> FALSE

\* whether field f of the schema accepts what the object holds under f.k
FieldAccepts(f, ent) ==
    IF ~HasKey(ent, f.k) \/ Get(ent, f.k) = Undefined
    THEN f.optional
    ELSE TypeAccepts(f, Get(ent, f.k))

Parsed(success, data, issues) == [success |-> success, data |-> data, issues |-> issues]

\* z.object(shape).safeParse(v): unknown keys are stripped, the data keeps the
\* schema's fields the input holds, in schema order; the issues name the
\* failing fields (the empty path when v is no object)
SafeParse(shape, v) ==
    IF v.kind # "object"
    THEN Parsed(FALSE, Undefined, <<<<>>>>)
    ELSE LET bad == SelectSeq(shape, LAMBDA f : ~FieldAccepts(f, v.ent))
             kept == SelectSeq(shape, LAMBDA f : HasKey(v.ent, f.k))
         IN  IF bad = <<>>
             THEN Parsed(TRUE, Obj([i \in DOMAIN kept |-> Entry(kept[i].k, Get(v.ent, kept[i].k))]), <<>>)
             ELSE Parsed(FALSE, Undefined, [i \in DOMAIN bad |-> bad[i].k])

\* the select argument: undefined, or a list of field names
Select(given, fields) == [given |-> given, fields |-> fields]
NoSelect == Select(FALSE, <<>>)

RECURSIVE Dedup(_)
Dedup(seq) ==
    IF seq = <<>> THEN <<>>
    ELSE LET rest == Dedup(SubSeq(seq, 1, Len(seq) - 1))
         IN  IF \E i \in DOMAIN rest : rest[i] = seq[Len(seq)] THEN rest
             ELSE Append(rest, seq[Len(seq)])

\* generateDynamicSchema(select), on an object schema
generateDynamicSchema(shape, select) ==
    IF ~select.given \/ Len(select.fields) = 0
    THEN shape
    ELSE LET fields == Dedup(SelectSeq(select.fields, LAMBDA f : InShape(shape, f)))
         IN  [i \in DOMAIN fields |->
                 shape[CHOOSE j \in DOMAIN shape : shape[j].k = fields[i]]]

RECURSIVE PutAll(_, _, _)
\* the properties entries[i..] assigned to ent in turn
PutAll(ent, entries, i) ==
    IF i > Len(entries) THEN ent
    ELSE PutAll(Put(ent, entries[i].k, entries[i].v), entries, i + 1)

\* generateProjection(select)
generateProjection(select) ==
    IF select.given
    THEN Obj(PutAll(<<>>, [i \in DOMAIN select.fields |-> Entry(select.fields[i], Num(1))], 1))
    ELSE Undefined

\* the own enumerable properties an object spread ...v copies, in order
SpreadEntries(v) ==
    CASE v.kind \in {"object", "array"} -> ObjectEntries(v)
      [] v.kind = "string" -> [i \in DOMAIN v.str |-> Entry(IndexKey(i - 1), Str(<<v.str[i]>>))]
      [] OTHER -> <<>>

\* x ?? {}
OrEmptyObject(v) == IF v.kind \in {"null", "undefined"} THEN Obj(<<>>) ELSE v

\* obj[k]
Prop(obj, k) == IF HasKey(obj.ent, k) THEN Get(obj.ent, k) ELSE Undefined

\* mutant of DriverUpdate: updated_at is written before the caller's fields
DriverUpdateCallerLast(upd, now) ==
    LET inner == PutAll(<<Entry(updated_at, DateVal(now))>>,
                        SpreadEntries(OrEmptyObject(Prop(upd, SetOp))), 1)
    IN  Obj(Put(PutAll(<<>>, SpreadEntries(upd), 1), SetOp, Obj(inner)))

\* { ...updateObj, $set: { ...(updateObj.$set ?? {}), updated_at: new Date() } }
DriverUpdate(upd, now) ==
    LET inner == Put(PutAll(<<>>, SpreadEntries(OrEmptyObject(Prop(upd, SetOp))), 1),
                     updated_at, DateVal(now))
    IN  Obj(Put(PutAll(<<>>, SpreadEntries(upd), 1), SetOp, Obj(inner)))

ObjectId(n) == Value("objectid", <<>>, n, <<>>)

\* mutant of buildInsertPayload: the two timestamps are read one after the other
buildInsertPayloadTwoDates(input, oid, now) ==
    Obj(Put(Put(Put(PutAll(<<>>, SpreadEntries(input), 1), id, ObjectId(oid)),
                created_at, DateVal(now)),
            updated_at, DateVal(now + 1)))

\* buildInsertPayload(input): { ...input, _id, created_at: now, updated_at: now }
buildInsertPayload(input, oid, now) ==
    Obj(Put(Put(Put(PutAll(<<>>, SpreadEntries(input), 1), id, ObjectId(oid)),
                created_at, DateVal(now)),
            updated_at, DateVal(now)))

----------------------------------------------------------------------------
(* Calls and responses of the repository operations *)

\* an operation and its arguments (those it does not take are undefined)
Call(op, filter, max, select, upd, pipeline, schemaArg, input) ==
    [op |-> op, filter |-> filter, max |-> max, select |-> select, update |-> upd,
     pipeline |-> pipeline, schema |-> schemaArg, input |-> input]

\* a call on this.collection and its arguments
DriverCall(method, filter, max, projection, upd, pipeline, doc) ==
    [invoked |-> TRUE, method |-> method, filter |-> filter, max |-> max,
     projection |-> projection, update |-> upd, pipeline |-> pipeline, doc |-> doc]

NotInvoked ==
    [invoked |-> FALSE, method |-> "", filter |-> Undefined, max |-> Undefined,
     projection |-> Undefined, update |-> Undefined, pipeline |-> Undefined, doc |-> Undefined]

\* the response object of an operation (a key it does not carry is undefined)
Response(data, stat, error, queryFilter, pipeline) ==
    [data |-> data, status |-> stat, error |-> error, queryFilter |-> queryFilter,
     pipeline |-> pipeline]

NoResponse == Response(Undefined, "", Undefined, Undefined, Undefined)

\* what a driver call came back with: the documents of toArray(), one
\* document or null, the acknowledgement of an insert, or a thrown error
Answer(kind, results, doc, acknowledged, err) ==
    [kind |-> kind, results |-> results, doc |-> doc, acknowledged |-> acknowledged,
     error |-> err]
NoAnswer == Answer("none", <<>>, Undefined, FALSE, NoError)
Documents(results) == Answer("results", results, Undefined, FALSE, NoError)
Document(doc) == Answer("doc", <<>>, doc, FALSE, NoError)
InsertResult(acknowledged) == Answer("inserted", <<>>, Undefined, acknowledged, NoError)
DriverError(err) == Answer("error", <<>>, Undefined, FALSE, err)

\* the operation's promise: pending, fulfilled with a response, or rejected
Pending == [kind |-> "none", response |-> NoResponse, error |-> <<>>]
Fulfilled(response) == [kind |-> "returned", response |-> response, error |-> <<>>]
Rejected(message) == [kind |-> "rejected", response |-> NoResponse, error |-> message]

\* mutant of IfError: the query is echoed whether or not there is an error
IfErrorAlways(error, v) == v

\* error ? filter : undefined
IfError(error, v) == IF error = Undefined THEN Undefined ELSE v

\* the state of a repository between operations
RepoIdle ==
    /\ schema = testSchema
    /\ call = Call("", Undefined, Undefined, NoSelect, Undefined, Undefined, Undefined, Undefined)
    /\ driver = NotInvoked
    /\ result = Pending
    /\ invalid = <<>>
    /\ answer = NoAnswer
    /\ clock = 0

----------------------------------------------------------------------------
(* One call of extractUpdatePayload on each update expression *)

InitExtract ==
    /\ update \in Updates
    /\ arg = update
    /\ pc = "ready"
    /\ outcome = NoOutcome
    /\ extracted = <<>>
    /\ first = NoCall
    /\ seen = {}
    /\ RepoIdle

Extract ==
    /\ pc = "ready"
    /\ pc' = "done"
    /\ outcome' = extractUpdatePayload(arg)
    /\ extracted' = Walk(arg, NewAccumulator).extracted
    /\ UNCHANGED <<update, arg, first, seen>>
    /\ UNCHANGED repoVars

NextExtract == Extract

SpecExtract == InitExtract /\ [][NextExtract]_vars

----------------------------------------------------------------------------
(* Calls of extractUpdatePayload one after the other on one repository *)

\* the entries of the expressions these calls are made with: payloads that
\* write two fields, that throw after a write, a list, null, and direct keys
CallEntries ==
    {Entry(k, v) : k \in {SetOp, UnsetOp},
                   v \in {Obj(<<Entry(name, John), Entry(count, Null)>>),
                          Obj(<<Entry(count, Null), Entry(userName, John)>>),
                          Arr(<<John>>), Null}}
        \cup {Entry(k, Alice) : k \in {name, profileContactEmail}}

\* the expressions of the first call: the empty and the one-entry expressions
ProbeUpdates == {Obj(<<>>)} \cup {Obj(<<e>>) : e \in CallEntries}

CallUpdates == UpdatesUpTo(MaxCallEntries, CallEntries)

InitCalls ==
    /\ update = Obj(<<>>)
    /\ arg = Obj(<<>>)
    /\ pc = "ready"
    /\ outcome = NoOutcome
    /\ extracted = <<>>
    /\ first = NoCall
    /\ seen = {}
    /\ RepoIdle

\* one call: walk never assigns to obj, so the caller's expression is the one
\* it handed over
CallExtract(u) ==
    /\ pc' = "done"
    /\ arg' = u
    /\ update' = u
    /\ outcome' = extractUpdatePayload(u)
    /\ extracted' = Walk(u, NewAccumulator).extracted
    /\ first' = IF first.made THEN first ELSE CallRecord(TRUE, u, outcome')
    /\ seen' = IF pc = "done" THEN seen \cup {outcome.status} ELSE seen
    /\ UNCHANGED repoVars

NextCalls ==
    \E u \in (IF first.made THEN CallUpdates ELSE ProbeUpdates) : CallExtract(u)

SpecCalls == InitCalls /\ [][NextCalls]_vars

----------------------------------------------------------------------------
(* The operations of RepoBase.  Each operation runs to its await on the
   driver in one step, and from the driver's answer to its end in another.
   The repository keeps nothing from one operation to the next, so a
   behaviour is one operation on a freshly built repository. *)

collectionName == <<"test">>

RECURSIVE NumToStr(_)
\* `${n}`
NumToStr(n) ==
    IF n < 10 THEN <<Digits[n + 1]>> ELSE NumToStr(n \div 10) \o <<Digits[(n % 10) + 1]>>

\* the message of the error a failing driver call throws
DriverErrorMessage == <<"driver error">>

FindErrorMsg(n) ==
    Str(NumToStr(n) \o <<" ">> \o collectionName \o <<" document(s) failed validation during find">>)
AggregateErrorMsg(n) ==
    Str(NumToStr(n) \o <<" ">> \o collectionName
            \o <<" document(s) failed validation during aggregate">>)
FindOneErrorMsg ==
    Str(<<"1 ">> \o collectionName \o <<" document failed validation during findOne">>)
UpdatePriorErrorMsg ==
    Str(<<"1 ">> \o collectionName \o <<" document failed validation before findOneAndUpdate">>)
UpdateDriverErrorMsg ==
    Str(<<"1 ">> \o collectionName \o <<" document failed findOneAndUpdate in mongodb">>)
UpdateNullErrorMsg ==
    Str(<<"1 ">> \o collectionName \o <<" document returned null findOneAndUpdate in mongodb">>)
UpdateAfterErrorMsg ==
    Str(<<"1 ">> \o collectionName \o <<" document failed validation after findOneAndUpdate">>)

RECURSIVE JoinPaths(_)
JoinPaths(issues) ==
    IF issues = <<>> THEN <<>>
    ELSE issues[1] \o (IF Len(issues) > 1 THEN <<",">> ELSE <<>>) \o JoinPaths(Tail(issues))

\* `${errorMsg} ${JSON.stringify(errorIssues)}`, an issue written as its path
InsertInvalidErrorMsg(issues) ==
    Str(<<"Failed to insert document: schema validation failed", " ", "[">>
            \o JoinPaths(issues) \o <<"]">>)
InsertDriverErrorMsg == Str(<<"MongoDB failed to insertOne">>)
InsertNotAcknowledgedErrorMsg == Str(<<"MongoDB failed to acknowledge insert">>)

\* results.map(safeParse)
ParseAll(shape, results) == [i \in DOMAIN results |-> SafeParse(shape, results[i])]

\* mutant of ValidResults: the failing results are not filtered out
ValidResultsUnfiltered(parsed) == [i \in DOMAIN parsed |-> parsed[i].data]

\* parsedResults.filter(success).map(data)
ValidResults(parsed) ==
    LET good == SelectSeq(parsed, LAMBDA r : r.success)
    IN  [i \in DOMAIN good |-> good[i].data]

\* parsedResults.filter(!success).map((result, index) => ({ originalData:
\* results[index], errors })): index counts the failing results
InvalidResults(parsed, results) ==
    LET bad == SelectSeq(parsed, LAMBDA r : ~r.success)
    IN  [index \in DOMAIN bad |-> [originalData |-> results[index], errors |-> bad[index].issues]]

\* the schema argument of aggregate: false, omitted, or a schema
SchemaArg(kind, shape) == [kind |-> kind, shape |-> shape]
SchemaFalse == SchemaArg("false", <<>>)
SchemaOmitted == SchemaArg("omitted", <<>>)
countSchema == <<Field(count, "number", FALSE, {})>>
SchemaUndefined == SchemaArg("undefined", <<>>)

\* mutant of EffectiveSchema: a supplied schema is not used
EffectiveSchemaOwn(schemaArg, own) ==
    IF schemaArg.kind = "false" THEN SchemaUndefined ELSE SchemaArg("given", own)

\* schema === false ? undefined : (schema ?? this.schema)
EffectiveSchema(schemaArg, own) ==
    IF schemaArg.kind = "false" THEN SchemaUndefined
    ELSE IF schemaArg.kind = "omitted" THEN SchemaArg("given", own)
    ELSE schemaArg

\* the start of an operation: its call, its driver call if it makes one, and
\* where it stands; the operation assigns to none of its arguments
Begin(c, d, r, at) ==
    /\ pc = "idle"
    /\ call' = c
    /\ driver' = d
    /\ result' = r
    /\ pc' = at
    /\ invalid' = <<>>
    /\ answer' = NoAnswer
    /\ update' = (IF c.update = Undefined THEN update ELSE c.update)
    /\ UNCHANGED <<extracted, first, seen, schema>>

\* the end of an operation whose driver call was answered
End(r, reported) ==
    /\ pc' = "done"
    /\ result' = r
    /\ invalid' = reported
    /\ UNCHANGED <<call, driver, arg, outcome, update, extracted, first, seen, schema, clock>>

Awaiting(ops) == pc = "await" /\ call.op \in ops

\* find, to `await query.toArray()`
FindStart(op, filter, max, select) ==
    /\ Begin(Call(op, filter, max, select, Undefined, Undefined, Undefined, Undefined),
             DriverCall("find", filter, max, generateProjection(select), Undefined, Undefined,
                        Undefined),
             Pending, "await")
    /\ arg' = Obj(<<>>)
    /\ outcome' = NoOutcome
    /\ clock' = clock

FindCall(filter, max, select) == FindStart("find", filter, max, select)

\* getAll({ max }): this.find({ filter: {}, max })
GetAllCall(max) == FindStart("getAll", Obj(<<>>), max, NoSelect)

\* find, from the driver's results
FindResolve(results) ==
    /\ Awaiting({"find", "getAll"})
    /\ answer' = Documents(results)
    /\ LET parsed == ParseAll(generateDynamicSchema(schema, call.select), results)
           valid == ValidResults(parsed)
           bad == InvalidResults(parsed, results)
           error == IF Len(valid) # Len(results) THEN FindErrorMsg(Len(bad)) ELSE Undefined
       IN  End(Fulfilled(Response(Arr(valid),
                                  IF error = Undefined THEN "ok" ELSE "hasErrors",
                                  error, IfError(error, call.filter), Undefined)),
               bad)

\* find, the driver call failing: nothing catches it
FindReject(err) ==
    /\ Awaiting({"find", "getAll"})
    /\ answer' = DriverError(err)
    /\ End(Rejected(MessageOf(err)), <<>>)

\* findOne, to `await this.collection.findOne(filter, projection)`
FindOneCall(filter, select) ==
    /\ Begin(Call("findOne", filter, Undefined, select, Undefined, Undefined, Undefined,
                  Undefined),
             DriverCall("findOne", filter, Undefined, generateProjection(select), Undefined,
                        Undefined, Undefined),
             Pending, "await")
    /\ arg' = Obj(<<>>)
    /\ outcome' = NoOutcome
    /\ clock' = clock

\* findOne, from the driver's document or null
FindOneResolve(doc) ==
    /\ Awaiting({"findOne"})
    /\ answer' = Document(doc)
    /\ IF doc = Null
       THEN End(Fulfilled(Response(Null, "ok", Undefined, Undefined, Undefined)), <<>>)
       ELSE LET parsed == SafeParse(generateDynamicSchema(schema, call.select), doc)
            IN  IF parsed.success
                THEN End(Fulfilled(Response(parsed.data, "ok", Undefined, Undefined, Undefined)),
                         <<>>)
                ELSE End(Fulfilled(Response(Null, "hasErrors", FindOneErrorMsg, call.filter,
                                            Undefined)),
                         <<[originalData |-> parsed.data, errors |-> parsed.issues]>>)

\* findOne, the driver call failing: nothing catches it
FindOneReject(err) ==
    /\ Awaiting({"findOne"})
    /\ answer' = DriverError(err)
    /\ End(Rejected(MessageOf(err)), <<>>)

\* mutant of HasParseErrorPrior: the result of the validation is not looked at
HasParseErrorPriorIgnored(parsed) == FALSE

\* if (parseErrorPrior)
HasParseErrorPrior(parsed) == ~parsed.success

\* findOneAndUpdate, to `await this.collection.findOneAndUpdate(...)`: the
\* payload is extracted (a throw rejects the operation), validated against the
\* partial schema (a failure ends the operation), and the driver is called
FindOneAndUpdateCall(filter, upd, select, now) ==
    LET c == Call("findOneAndUpdate", filter, Undefined, select, upd, Undefined, Undefined,
                  Undefined)
        dynamicSchema == generateDynamicSchema(schema, select)
        extractedPayload == extractUpdatePayload(upd)
        prior == SafeParse(Partial(dynamicSchema), Obj(extractedPayload.value))
    IN  /\ pc = "idle"
        /\ arg' = upd
        /\ outcome' = extractedPayload
        /\ IF extractedPayload.status = "threw"
           THEN /\ Begin(c, NotInvoked, Rejected(extractedPayload.message), "done")
                /\ clock' = clock
           ELSE IF HasParseErrorPrior(prior)
           THEN /\ Begin(c, NotInvoked,
                         Fulfilled(Response(Arr(<<>>), "hasErrors", UpdatePriorErrorMsg, filter,
                                            Undefined)),
                         "done")
                /\ clock' = clock
           ELSE /\ Begin(c,
                         DriverCall("findOneAndUpdate", filter, Undefined,
                                    generateProjection(select), DriverUpdate(upd, now),
                                    Undefined, Undefined),
                         Pending, "await")
                /\ clock' = now

\* findOneAndUpdate, from the driver's document or null
FindOneAndUpdateResolve(doc) ==
    /\ Awaiting({"findOneAndUpdate"})
    /\ answer' = Document(doc)
    /\ IF doc = Null
       THEN End(Fulfilled(Response(Arr(<<>>), "hasErrors", UpdateNullErrorMsg, call.filter,
                                   Undefined)),
                <<>>)
       ELSE LET parsed == SafeParse(generateDynamicSchema(schema, call.select), doc)
            IN  IF parsed.success
                THEN End(Fulfilled(Response(Arr(<<parsed.data>>), "ok", Undefined, Undefined,
                                            Undefined)),
                         <<>>)
                ELSE End(Fulfilled(Response(Arr(<<>>), "hasErrors", UpdateAfterErrorMsg,
                                            call.filter, Undefined)),
                         <<>>)

\* findOneAndUpdate, the driver call failing: caught
FindOneAndUpdateReject(err) ==
    /\ Awaiting({"findOneAndUpdate"})
    /\ answer' = DriverError(err)
    /\ End(Fulfilled(Response(Arr(<<>>), "hasErrors", UpdateDriverErrorMsg, call.filter,
                              Undefined)),
           <<>>)

\* insertOne, to `await this.collection.insertOne(parsedData)`
InsertOneCall(input, oid, now) ==
    LET c == Call("insertOne", Undefined, Undefined, NoSelect, Undefined, Undefined, Undefined,
                  input)
        parsed == SafeParse(schema, buildInsertPayload(input, oid, now))
    IN  /\ pc = "idle"
        /\ arg' = Obj(<<>>)
        /\ outcome' = NoOutcome
        /\ clock' = now
        /\ IF ~parsed.success
           THEN Begin(c, NotInvoked,
                      Fulfilled(Response(Null, "hasErrors", InsertInvalidErrorMsg(parsed.issues),
                                         Undefined, Undefined)),
                      "done")
           ELSE Begin(c,
                      DriverCall("insertOne", Undefined, Undefined, Undefined, Undefined,
                                 Undefined, parsed.data),
                      Pending, "await")

\* insertOne, from the driver's result
InsertOneResolve(acknowledged) ==
    /\ Awaiting({"insertOne"})
    /\ answer' = InsertResult(acknowledged)
    /\ IF acknowledged
       THEN End(Fulfilled(Response(driver.doc, "ok", Undefined, Undefined, Undefined)), <<>>)
       ELSE End(Fulfilled(Response(Null, "hasErrors", InsertNotAcknowledgedErrorMsg, Undefined,
                                   Undefined)),
                <<>>)

\* insertOne, the driver call failing: caught
InsertOneReject(err) ==
    /\ Awaiting({"insertOne"})
    /\ answer' = DriverError(err)
    /\ End(Fulfilled(Response(Null, "hasErrors", InsertDriverErrorMsg, Undefined, Undefined)),
           <<>>)

\* aggregate, to `await this.collection.aggregate(pipeline, options).toArray()`
AggregateCall(pipeline, schemaArg) ==
    /\ Begin(Call("aggregate", Undefined, Undefined, NoSelect, Undefined, pipeline, schemaArg,
                  Undefined),
             DriverCall("aggregate", Undefined, Undefined, Undefined, Undefined, pipeline,
                        Undefined),
             Pending, "await")
    /\ arg' = Obj(<<>>)
    /\ outcome' = NoOutcome
    /\ clock' = clock

\* aggregate, from the driver's results
AggregateResolve(results) ==
    /\ Awaiting({"aggregate"})
    /\ answer' = Documents(results)
    /\ IF EffectiveSchema(call.schema, schema) = SchemaUndefined
       THEN End(Fulfilled(Response(Arr(results), "ok", Undefined, Undefined, Undefined)), <<>>)
       ELSE LET effectiveSchema == EffectiveSchema(call.schema, schema).shape
                parsed == ParseAll(effectiveSchema, results)
                bad == InvalidResults(parsed, results)
                error == IF Len(bad) > 0 THEN AggregateErrorMsg(Len(bad)) ELSE Undefined
            IN  End(Fulfilled(Response(Arr(ValidResults(parsed)),
                                       IF error = Undefined THEN "ok" ELSE "hasErrors",
                                       error, Undefined, IfError(error, call.pipeline))),
                    bad)

\* aggregate, the driver call failing: caught
AggregateReject(err) ==
    /\ Awaiting({"aggregate"})
    /\ answer' = DriverError(err)
    /\ End(Fulfilled(Response(Arr(<<>>), "hasErrors", Str(MessageOf(err)), Undefined,
                              call.pipeline)),
           <<>>)

----------------------------------------------------------------------------
(* The arguments the operations are called with and the driver's answers *)

Filters == {Obj(<<>>), Obj(<<Entry(name, John)>>)}
MaxValues == {Undefined, Num(1)}
Selects == {NoSelect, Select(TRUE, <<>>), Select(TRUE, <<count>>)}
Times == {1, 2}
ObjectIds == {1, 2}
\* updates of several entries: operators around a $set that carries its own
\* updated_at, a direct key before an operator, a $set holding null
MixedUpdates ==
    {Obj(<<Entry(IncOp, Obj(<<Entry(count, Num(2))>>)),
           Entry(SetOp, Obj(<<Entry(updated_at, DateVal(0)), Entry(count, Num(2))>>)),
           Entry(name, Alice)>>),
     Obj(<<Entry(name, Alice), Entry(UnsetOp, Obj(<<Entry(count, Null)>>))>>),
     Obj(<<Entry(SetOp, Null), Entry(name, Alice)>>)}
RepoUpdates == UpdatesUpTo(MaxUpdateEntries, TopEntries) \cup MixedUpdates

\* documents of the collection: two that pass testSchema, one that fails it on
\* name, one that fails it on count
Docs ==
    {Obj(<<Entry(name, John), Entry(status, sent)>>),
     Obj(<<Entry(name, Alice), Entry(status, pending), Entry(count, Num(2))>>),
     Obj(<<Entry(name, Null), Entry(status, sent)>>),
     Obj(<<Entry(name, John), Entry(status, failed), Entry(count, Alice)>>)}

ResultLists == UNION {[1..n -> Docs] : n \in 0..MaxResults}

Pipelines == {Arr(<<>>), Arr(<<Obj(<<Entry(<<"$", "m", "a", "t", "c", "h">>, Obj(<<>>))>>)>>)}
\* the errors a failing driver call throws: with a message, with an empty one
DriverErrors == {ErrorObject(DriverErrorMessage), ErrorObject(<<>>)}
SchemaArgs == {SchemaFalse, SchemaOmitted, SchemaArg("given", countSchema)}

\* the schemas a repository is built with
Schemas == {testSchema, stampedSchema}

\* new Repo(db, collectionName, schema)
Init ==
    /\ update = Obj(<<>>)
    /\ arg = Obj(<<>>)
    /\ pc = "idle"
    /\ outcome = NoOutcome
    /\ extracted = <<>>
    /\ first = NoCall
    /\ seen = {}
    /\ schema \in Schemas
    /\ call = Call("", Undefined, Undefined, NoSelect, Undefined, Undefined, Undefined, Undefined)
    /\ driver = NotInvoked
    /\ result = Pending
    /\ invalid = <<>>
    /\ answer = NoAnswer
    /\ clock = 0

\* the operations, called on the idle repository with any arguments
find ==
    /\ pc = "idle"
    /\ \E filter \in Filters, max \in MaxValues, select \in Selects :
          FindCall(filter, max, select)

getAll ==
    /\ pc = "idle"
    /\ \E max \in MaxValues : GetAllCall(max)

findOne ==
    /\ pc = "idle"
    /\ \E filter \in Filters, select \in Selects : FindOneCall(filter, select)

findOneAndUpdate ==
    /\ pc = "idle"
    /\ \E filter \in Filters, upd \in RepoUpdates, select \in Selects, now \in Times :
          FindOneAndUpdateCall(filter, upd, select, now)

insertOne ==
    /\ pc = "idle"
    /\ \E input \in Docs, oid \in ObjectIds, now \in Times : InsertOneCall(input, oid, now)

aggregate ==
    /\ pc = "idle"
    /\ \E pipeline \in Pipelines, schemaArg \in SchemaArgs : AggregateCall(pipeline, schemaArg)

Next ==
    \/ find
    \/ getAll
    \/ findOne
    \/ findOneAndUpdate
    \/ insertOne
    \/ aggregate
    \/ \E results \in ResultLists : FindResolve(results)
    \/ \E err \in DriverErrors : FindReject(err)
    \/ \E doc \in Docs \cup {Null} : FindOneResolve(doc)
    \/ \E err \in DriverErrors : FindOneReject(err)
    \/ \E doc \in Docs \cup {Null} : FindOneAndUpdateResolve(doc)
    \/ \E err \in DriverErrors : FindOneAndUpdateReject(err)
    \/ \E acknowledged \in BOOLEAN : InsertOneResolve(acknowledged)
    \/ \E err \in DriverErrors : InsertOneReject(err)
    \/ \E results \in ResultLists : AggregateResolve(results)
    \/ \E err \in DriverErrors : AggregateReject(err)

Spec == Init /\ [][Next]_vars

----------------------------------------------------------------------------
(* Properties of extractUpdatePayload, stated on the update expression *)

IsOperatorEntry(e) == Len(e.k) >= 1 /\ e.k[1] = "$"
IsMapping(v) == v.kind = "object"
IsDotted(f) == \E i \in DOMAIN f : f[i] = "."

\* the field names one entry of an update expression names, in order: the
\* entry's own key when it is a direct key, the keys of its payload when it is
\* an operator entry (the indices of a list payload included)
EntryFieldSeq(e) ==
    IF IsOperatorEntry(e)
    THEN IF e.v.kind \in {"object", "array"}
         THEN [j \in DOMAIN ObjectEntries(e.v) |-> ObjectEntries(e.v)[j].k]
         ELSE <<>>
    ELSE <<e.k>>

EntryFields(e) == {EntryFieldSeq(e)[j] : j \in DOMAIN EntryFieldSeq(e)}

\* the value entry e gives field f
EntryValue(e, f) == IF IsOperatorEntry(e) THEN Get(ObjectEntries(e.v), f) ELSE e.v

RECURSIVE FieldNameSeqFrom(_, _)
FieldNameSeqFrom(entries, i) ==
    IF i > Len(entries) THEN <<>>
    ELSE EntryFieldSeq(entries[i]) \o FieldNameSeqFrom(entries, i + 1)

\* every field name of the update expression, in iteration order
FieldNameSeq(obj) == FieldNameSeqFrom(ObjectEntries(obj), 1)

HasDotted(obj) == \E i \in DOMAIN FieldNameSeq(obj) : IsDotted(FieldNameSeq(obj)[i])

FirstDotted(obj) ==
    LET s == FieldNameSeq(obj)
        i == CHOOSE n \in DOMAIN s : IsDotted(s[n]) /\ \A m \in 1..(n - 1) : ~IsDotted(s[m])
    IN  s[i]

\* no entry after position i of the iteration writes field f
NotWrittenAfter(obj, i, f) ==
    \A j \in DOMAIN ObjectEntries(obj) : j > i => f \notin EntryFields(ObjectEntries(obj)[j])

\* C1 (as claimed): when a field name is both a direct top-level key and a
\* nested key of an operator entry, and no field name is dotted, the extracted
\* payload maps it to the direct key's value, wherever the direct key stands.
C1_DirectKeyWins ==
    (pc = "done" /\ ~HasDotted(arg)) =>
        \A i, j \in DOMAIN arg.ent :
            (/\ ~IsOperatorEntry(arg.ent[i])
             /\ IsOperatorEntry(arg.ent[j])
             /\ IsMapping(arg.ent[j].v)
             /\ HasKey(arg.ent[j].v.ent, arg.ent[i].k))
            => /\ outcome.status = "returned"
               /\ HasKey(outcome.value, arg.ent[i].k)
               /\ Get(outcome.value, arg.ent[i].k) = arg.ent[i].v

\* C2: an update expression with a dotted field name (direct, or nested under
\* an operator entry) makes extractUpdatePayload throw, return no mapping, and
\* the message is exactly the fixed text followed by the first dotted field
\* name of the iteration, in double quotes.
C2_DotNotationFails ==
    (pc = "done" /\ HasDotted(arg)) =>
        /\ outcome.status = "threw"
        /\ outcome.value = <<>>
        /\ outcome.message =
              <<"Dot notation keys are not supported yet: ", "\"">>
                  \o FirstDotted(arg) \o <<"\"">>

\* C2 witness: a call that threw on an expression naming two different dotted
\* fields, one direct and one nested.
C2_Witness ==
    /\ pc = "done"
    /\ outcome.status = "threw"
    /\ \E i, j \in DOMAIN arg.ent :
          /\ ~IsOperatorEntry(arg.ent[i]) /\ IsDotted(arg.ent[i].k)
          /\ IsOperatorEntry(arg.ent[j]) /\ IsMapping(arg.ent[j].v)
          /\ \E f \in EntryFields(arg.ent[j]) : IsDotted(f) /\ f # arg.ent[i].k

OnlyMappingOperators(obj) ==
    \A i \in DOMAIN obj.ent : IsOperatorEntry(obj.ent[i]) /\ IsMapping(obj.ent[i].v)

\* the last entry, in insertion order, that names field f
LastNaming(obj, f) ==
    CHOOSE i \in DOMAIN obj.ent :
        /\ HasKey(obj.ent[i].v.ent, f)
        /\ \A j \in DOMAIN obj.ent : j > i => ~HasKey(obj.ent[j].v.ent, f)

\* C3: for an update expression of operator entries with mapping values only
\* and no dotted name, the payload's keys are the union of the nested field
\* names, each mapped to the value of the last operator entry (insertion
\* order) naming it, undefined when that entry is $unset; the empty expression
\* extracts to the empty mapping.
C3_OperatorsLastWins ==
    (pc = "done" /\ OnlyMappingOperators(arg) /\ ~HasDotted(arg)) =>
        /\ outcome.status = "returned"
        /\ KeysOf(outcome.value) = UNION {KeysOf(arg.ent[i].v.ent) : i \in DOMAIN arg.ent}
        /\ Len(outcome.value) = Cardinality(KeysOf(outcome.value))
        /\ \A f \in KeysOf(outcome.value) :
              LET e == arg.ent[LastNaming(arg, f)]
              IN  Get(outcome.value, f) =
                      IF e.k = UnsetOp THEN Undefined ELSE Get(e.v.ent, f)
        /\ (arg.ent = <<>> => outcome.value = <<>>)

\* C3 witness: two operator entries named the same field with different
\* values and the call returned.
C3_Witness ==
    /\ pc = "done" /\ OnlyMappingOperators(arg) /\ outcome.status = "returned"
    /\ \E i, j \in DOMAIN arg.ent : \E f \in KeysOf(arg.ent[i].v.ent) :
          /\ i < j
          /\ HasKey(arg.ent[j].v.ent, f)
          /\ arg.ent[i].k # UnsetOp /\ arg.ent[j].k # UnsetOp
          /\ Get(arg.ent[i].v.ent, f) # Get(arg.ent[j].v.ent, f)

\* C4: a field named under $unset and not written by a later entry is a key
\* of the extracted payload, mapped to undefined, whatever $unset held for it.
C4_UnsetKeepsKey ==
    (pc = "done" /\ outcome.status = "returned") =>
        \A i \in DOMAIN ObjectEntries(arg) :
            LET e == ObjectEntries(arg)[i]
            IN  (e.k = UnsetOp /\ IsMapping(e.v)) =>
                    \A f \in KeysOf(e.v.ent) :
                        NotWrittenAfter(arg, i, f) =>
                            /\ HasKey(outcome.value, f)
                            /\ Get(outcome.value, f) = Undefined

\* C4 witness: a returned call whose expression unsets a field holding a
\* value, after another entry wrote that field.
C4_Witness ==
    /\ pc = "done" /\ outcome.status = "returned"
    /\ \E i \in DOMAIN arg.ent :
          /\ i > 1
          /\ arg.ent[i].k = UnsetOp /\ IsMapping(arg.ent[i].v)
          /\ \E f \in KeysOf(arg.ent[i].v.ent) :
                /\ f \in EntryFields(arg.ent[1])
                /\ NotWrittenAfter(arg, i, f)
                /\ Get(arg.ent[i].v.ent, f) # Undefined
                /\ Get(outcome.value, f) = Undefined

\* C5: values are copied verbatim and only top-level field names are looked
\* at: the call throws exactly when a direct key or a field nested one level
\* under an operator is dotted (keys inside values never matter), and
\* otherwise every direct key and every field under an operator other than
\* $unset, when no later entry writes it, is mapped to the very input value.
C5_ValuesVerbatim ==
    pc = "done" =>
        /\ (outcome.status = "threw") = HasDotted(arg)
        /\ outcome.status = "returned" =>
              \A i \in DOMAIN ObjectEntries(arg) :
                  LET e == ObjectEntries(arg)[i]
                  IN  e.k # UnsetOp =>
                          \A f \in EntryFields(e) :
                              NotWrittenAfter(arg, i, f) =>
                                  /\ HasKey(outcome.value, f)
                                  /\ Get(outcome.value, f) = EntryValue(e, f)

\* C5 witness: a returned call that copied a nested object whose own keys are
\* "$"-prefixed and dotted, and a date given by a direct key.
C5_Witness ==
    /\ pc = "done" /\ outcome.status = "returned"
    /\ \E f \in KeysOf(outcome.value) : Get(outcome.value, f) = Deep
    /\ \E f \in KeysOf(outcome.value) : Get(outcome.value, f) = DateVal(1)

\* the update expression without its operator entries that hold no mapping
WithoutNonMappings(obj) ==
    Obj(SelectSeq(obj.ent, LAMBDA e : ~(IsOperatorEntry(e) /\ ~IsMapping(e.v))))

\* C9 (as claimed): an operator entry holding null, a scalar or a list is
\* skipped: the call ends as it would on the expression without that entry.
C9_NonMappingSkipped ==
    pc = "done" => outcome = extractUpdatePayload(WithoutNonMappings(arg))

\* C10: a call leaves the expression it was given unchanged, its accumulator
\* holds only fields this call's expression names, and it ends as the first
\* call on the same expression ended, whatever calls came in between.
C10_Stateless ==
    pc = "done" =>
        /\ update = arg
        /\ KeysOf(extracted) \subseteq {FieldNameSeq(arg)[i] : i \in DOMAIN FieldNameSeq(arg)}
        /\ (first.made /\ arg = first.update) => outcome = first.outcome

\* C10 witness: the expression of the first call is given again after calls
\* that returned and calls that threw, and the call returns a payload.
C10_Witness ==
    /\ pc = "done"
    /\ first.made /\ arg = first.update
    /\ seen = {"returned", "threw"}
    /\ outcome.status = "returned" /\ outcome.value # <<>>

\* C11 (as claimed): the error thrown for a dotted field name is of the
\* dedicated kind UnsupportedDotNotationError and carries the offending field
\* name as a property of its own, besides the message.
C11_DedicatedErrorKind ==
    (pc = "done" /\ outcome.status = "threw") =>
        /\ outcome.error.class = "UnsupportedDotNotationError"
        /\ \E i \in DOMAIN outcome.error.ent :
              /\ outcome.error.ent[i].k # messageProp
              /\ outcome.error.ent[i].v = Str(FirstDotted(arg))

\* C11 (amended): the error thrown for a dotted field name is a plain Error
\* whose only property is its message, the fixed text followed by the first
\* dotted field name in double quotes; the field name is carried nowhere else.
C11_PlainErrorWithMessage ==
    (pc = "done" /\ HasDotted(arg)) =>
        /\ outcome.status = "threw"
        /\ outcome.error.class = "Error"
        /\ KeysOf(outcome.error.ent) = {messageProp}
        /\ Len(outcome.error.ent) = 1
        /\ Get(outcome.error.ent, messageProp) =
              Str(<<"Dot notation keys are not supported yet: ", "\"">>
                      \o FirstDotted(arg) \o <<"\"">>)

\* C11 witness: a call threw on a dotted name nested under an operator, after
\* it had written another field.
C11_Witness ==
    /\ pc = "done"
    /\ outcome.status = "threw"
    /\ outcome.error # NoError
    /\ extracted # <<>>
    /\ \E i \in DOMAIN arg.ent :
          /\ IsOperatorEntry(arg.ent[i]) /\ IsMapping(arg.ent[i].v)
          /\ FirstDotted(arg) \in KeysOf(arg.ent[i].v.ent)

----------------------------------------------------------------------------
(* Properties of the operations of RepoBase *)

\* C6 (as claimed): every operation, whatever the driver does, ends by
\* returning a response carrying data and status, and error when it failed;
\* none ends by throwing or rejecting.
C6_AllOperationsRespond ==
    pc = "done" =>
        /\ result.kind = "returned"
        /\ result.response.data # Undefined
        /\ result.response.status \in {"ok", "hasErrors"}
        /\ (result.response.status = "hasErrors" => result.response.error # Undefined)

\* C7 (as claimed): findOneAndUpdate called with a dotted field name returns a
\* failure response (status hasErrors, data empty, error set) instead of
\* throwing.
C7_DotNotationBecomesResponse ==
    (pc = "done" /\ call.op = "findOneAndUpdate" /\ HasDotted(call.update)) =>
        /\ result.kind = "returned"
        /\ result.response.status = "hasErrors"
        /\ result.response.data = Arr(<<>>)
        /\ result.response.error # Undefined

\* the extracted payload of the findOneAndUpdate under way was built and
\* passes the partial form of the schema of the selected fields
PayloadValidated ==
    /\ arg = call.update
    /\ outcome.status = "returned"
    /\ SafeParse(Partial(generateDynamicSchema(schema, call.select)), Obj(outcome.value)).success

\* C8: in findOneAndUpdate the driver is invoked only once the payload has
\* been extracted and has passed partial-schema validation; when extraction
\* or validation fails the driver is never invoked, and on validation failure
\* the response is status hasErrors, data [], queryFilter the caller's filter.
C8_DriverAfterValidation ==
    call.op = "findOneAndUpdate" =>
        /\ driver.invoked => (PayloadValidated /\ driver.method = "findOneAndUpdate")
        /\ (pc = "done" /\ ~PayloadValidated) => ~driver.invoked
        /\ (pc = "done" /\ outcome.status = "returned" /\ ~PayloadValidated) =>
              /\ result.kind = "returned"
              /\ result.response.status = "hasErrors"
              /\ result.response.data = Arr(<<>>)
              /\ result.response.queryFilter = call.filter

\* C8 witness: the driver's findOneAndUpdate is awaited for an update whose
\* extracted payload holds a field.
C8_Witness ==
    /\ pc = "await"
    /\ call.op = "findOneAndUpdate"
    /\ driver.invoked
    /\ outcome.value # <<>>

\* whether document doc passes the object schema shape
Passes(shape, doc) == SafeParse(shape, doc).success

RECURSIVE PassingParsed(_, _)
\* the parsed forms of the documents of results that pass shape, in order
PassingParsed(shape, results) ==
    IF results = <<>> THEN <<>>
    ELSE (IF Passes(shape, Head(results)) THEN <<SafeParse(shape, Head(results)).data>> ELSE <<>>)
             \o PassingParsed(shape, Tail(results))

\* C12: aggregate validates with no schema when called with schema false, with
\* the supplied schema when one is given, with the repository's schema when
\* it is omitted.  With schema false data is the driver's results as they
\* came, status ok, no error, pipeline undefined; otherwise data is the
\* results that pass the chosen schema (as parsed), in order, and status is
\* hasErrors, with error set and the pipeline echoed, exactly when a result
\* fails.
C12_AggregateSchemaChoice ==
    (pc = "done" /\ call.op = "aggregate" /\ answer.kind = "results") =>
        LET r == result.response
            chosen == IF call.schema.kind = "given" THEN call.schema.shape ELSE schema
            fails == \E i \in DOMAIN answer.results : ~Passes(chosen, answer.results[i])
        IN  /\ result.kind = "returned"
            /\ IF call.schema.kind = "false"
               THEN /\ r.data = Arr(answer.results)
                    /\ r.status = "ok"
                    /\ r.error = Undefined
                    /\ r.pipeline = Undefined
               ELSE /\ r.data = Arr(PassingParsed(chosen, answer.results))
                    /\ r.status = (IF fails THEN "hasErrors" ELSE "ok")
                    /\ (r.error # Undefined) = fails
                    /\ r.pipeline = (IF fails THEN call.pipeline ELSE Undefined)

\* C12 witness: aggregate was given a schema of its own; a result that passes
\* it was returned and a result that passes the repository's schema but not
\* the given one was not.
C12_Witness ==
    /\ pc = "done" /\ call.op = "aggregate" /\ answer.kind = "results"
    /\ call.schema.kind = "given"
    /\ result.response.status = "hasErrors"
    /\ result.response.data # Arr(<<>>)
    /\ \E i \in DOMAIN answer.results :
          Passes(schema, answer.results[i]) /\ ~Passes(call.schema.shape, answer.results[i])

\* C13: every response an operation returns is consistent: status is ok
\* exactly when error is undefined and hasErrors exactly when error is set,
\* and the echoed query (queryFilter of find, findOne, findOneAndUpdate,
\* pipeline of aggregate) is defined, and the caller's, exactly when status
\* is hasErrors.
C13_ResponseConsistent ==
    (pc = "done" /\ result.kind = "returned") =>
        LET r == result.response
        IN  /\ r.status \in {"ok", "hasErrors"}
            /\ (r.status = "ok") = (r.error = Undefined)
            /\ (r.status = "hasErrors") = (r.error # Undefined)
            /\ call.op \in {"find", "getAll", "findOne", "findOneAndUpdate"} =>
                  r.queryFilter = (IF r.status = "hasErrors" THEN call.filter ELSE Undefined)
            /\ call.op = "aggregate" =>
                  r.pipeline = (IF r.status = "hasErrors" THEN call.pipeline ELSE Undefined)

\* C13 witness: aggregate returned from its catch block, the driver's error
\* having an empty message.
C13_Witness ==
    /\ pc = "done" /\ result.kind = "returned"
    /\ call.op = "aggregate"
    /\ answer.kind = "error"
    /\ answer.error = ErrorObject(<<>>)
    /\ result.response.status = "hasErrors"

\* C14: find returns in data the parsed forms of the driver's results that
\* pass the schema of the selected fields, in the driver's order, none dropped
\* or duplicated; status is hasErrors exactly when a result fails, and then
\* the error message starts with the number of failing results, the number
\* of results minus the number of documents in data.
C14_FindReturnsValid ==
    (pc = "done" /\ call.op \in {"find", "getAll"} /\ answer.kind = "results") =>
        LET r == result.response
            dynamicSchema == generateDynamicSchema(schema, call.select)
            failing == {i \in DOMAIN answer.results : ~Passes(dynamicSchema, answer.results[i])}
        IN  /\ result.kind = "returned"
            /\ r.data = Arr(PassingParsed(dynamicSchema, answer.results))
            /\ (r.status = "hasErrors") = (failing # {})
            /\ (r.status = "ok") = (failing = {})
            /\ r.status = "hasErrors" =>
                  /\ Cardinality(failing) = Len(answer.results) - Len(r.data.ent)
                  /\ r.error.str[1] = Digits[Cardinality(failing) + 1]
                  /\ r.error.str[2] = " "

\* C14 witness: find with a selection was answered with a document that
\* fails the selected field before one that passes, and returned the second.
C14_Witness ==
    /\ pc = "done" /\ call.op = "find" /\ answer.kind = "results"
    /\ call.select.given /\ call.select.fields # <<>>
    /\ Len(answer.results) >= 2
    /\ ~Passes(generateDynamicSchema(schema, call.select), answer.results[1])
    /\ Passes(generateDynamicSchema(schema, call.select), answer.results[2])
    /\ Len(result.response.data.ent) = 1
    /\ result.response.status = "hasErrors"

\* the documents of results that fail shape, in order
FailingDocs(shape, results) == SelectSeq(results, LAMBDA doc : ~Passes(shape, doc))

\* the schema find or aggregate validates the driver's results with
ChosenSchema ==
    IF call.op = "aggregate"
    THEN (IF call.schema.kind = "given" THEN call.schema.shape ELSE schema)
    ELSE generateDynamicSchema(schema, call.select)

\* C15 (as claimed): in find and aggregate every entry of the reported invalid
\* results pairs the validation errors of a failing document with that same
\* document as originalData, whatever the mix and order of passing and
\* failing documents.
C15_InvalidResultsPaired ==
    (/\ pc = "done"
     /\ call.op \in {"find", "getAll", "aggregate"}
     /\ answer.kind = "results"
     /\ (call.op = "aggregate" => call.schema.kind # "false")) =>
        LET failing == FailingDocs(ChosenSchema, answer.results)
        IN  /\ Len(invalid) = Len(failing)
            /\ \A i \in DOMAIN invalid :
                  /\ invalid[i].originalData = failing[i]
                  /\ invalid[i].errors = SafeParse(ChosenSchema, failing[i]).issues

\* the field of the object schema shape named k
FieldOf(shape, k) == shape[CHOOSE i \in DOMAIN shape : shape[i].k = k]

\* C16 (as claimed): findOneAndUpdate never calls the driver with an update
\* whose extracted payload holds, for a field of the repository schema, a
\* value that field does not accept, whatever the select argument.
C16_NoInvalidDispatch ==
    (call.op = "findOneAndUpdate" /\ driver.invoked) =>
        \A i \in DOMAIN outcome.value :
            LET e == outcome.value[i]
            IN  (InShape(schema, e.k) /\ e.v # Undefined) =>
                    TypeAccepts(FieldOf(schema, e.k), e.v)

\* the keys of a property sequence, in order
KeySeq(ent) == [i \in DOMAIN ent |-> ent[i].k]

\* C17: the update findOneAndUpdate passes to the driver is the caller's
\* update, every operator entry and direct key other than $set unchanged and
\* in place; its $set is a mapping holding the caller's $set fields and
\* updated_at, the time of the call, also when the caller gave no $set (or
\* null) and also when the caller's $set names updated_at; the caller's
\* update object is as it was given.  (The fields of a caller's $set are
\* compared when it is a mapping.)
C17_DriverUpdateFrame ==
    (call.op = "findOneAndUpdate" /\ driver.invoked) =>
        LET given == ObjectEntries(call.update)
            passed == driver.update.ent
            theirs == Prop(call.update, SetOp)
            ours == Get(passed, SetOp)
        IN  /\ driver.update.kind = "object"
            /\ KeySeq(passed) =
                  (IF HasKey(given, SetOp) THEN KeySeq(given) ELSE Append(KeySeq(given), SetOp))
            /\ \A i \in DOMAIN given : given[i].k # SetOp => passed[i] = given[i]
            /\ ours.kind = "object"
            /\ HasKey(ours.ent, updated_at)
            /\ Get(ours.ent, updated_at) = DateVal(clock)
            /\ theirs \in {Undefined, Null} => ours.ent = <<Entry(updated_at, DateVal(clock))>>
            /\ theirs.kind = "object" =>
                  /\ KeysOf(ours.ent) = KeysOf(theirs.ent) \cup {updated_at}
                  /\ Len(ours.ent) = Cardinality(KeysOf(ours.ent))
                  /\ \A f \in KeysOf(theirs.ent) \ {updated_at} :
                        Get(ours.ent, f) = Get(theirs.ent, f)
            /\ update = call.update
            /\ arg = call.update

\* C17 witness: the driver is awaited with an update whose $set, between
\* another operator and a direct key, named updated_at with another time.
C17_Witness ==
    /\ pc = "await" /\ call.op = "findOneAndUpdate" /\ driver.invoked
    /\ Len(call.update.ent) = 3
    /\ call.update.ent[2].k = SetOp
    /\ HasKey(call.update.ent[2].v.ent, updated_at)
    /\ Get(call.update.ent[2].v.ent, updated_at) # DateVal(clock)
    /\ Get(Get(driver.update.ent, SetOp).ent, count) = Num(2)

\* the payload insertOne builds from its input, with object id oid
Stamped(oid) ==
    Obj(call.input.ent \o <<Entry(id, ObjectId(oid)),
                             Entry(created_at, DateVal(clock)),
                             Entry(updated_at, DateVal(clock))>>)

\* C18: insertOne calls the driver's insertOne only with a payload that passed
\* the repository schema (as parsed), built from the input, a new _id and
\* created_at = updated_at, one timestamp; when validation fails the driver
\* is never called.  The response's data is non-null exactly when status is
\* ok, which is exactly when validation passed, the driver did not throw
\* and the insert was acknowledged.
C18_InsertAfterValidation ==
    call.op = "insertOne" =>
        LET valid == \E oid \in ObjectIds : Passes(schema, Stamped(oid))
            r == result.response
        IN  /\ driver.invoked =>
                  /\ driver.method = "insertOne"
                  /\ \E oid \in ObjectIds :
                        /\ Passes(schema, Stamped(oid))
                        /\ driver.doc = SafeParse(schema, Stamped(oid)).data
                  /\ \A i \in DOMAIN call.input.ent :
                        InShape(schema, call.input.ent[i].k) =>
                            Prop(driver.doc, call.input.ent[i].k) = call.input.ent[i].v
                  /\ InShape(schema, id) => Prop(driver.doc, id).kind = "objectid"
                  /\ InShape(schema, created_at) =>
                        Prop(driver.doc, created_at) = DateVal(clock)
                  /\ InShape(schema, updated_at) =>
                        Prop(driver.doc, updated_at) = DateVal(clock)
            /\ ~valid => ~driver.invoked
            /\ pc = "done" =>
                  /\ result.kind = "returned"
                  /\ (r.data # Null) = (r.status = "ok")
                  /\ (r.status = "ok") =
                        (valid /\ answer.kind = "inserted" /\ answer.acknowledged)
                  /\ r.status = "ok" => r.data = driver.doc

\* C18 witness: an acknowledged insert into a repository whose schema
\* declares the timestamps returned the document the driver was given.
C18_Witness ==
    /\ pc = "done" /\ call.op = "insertOne"
    /\ schema = stampedSchema
    /\ driver.invoked /\ answer.kind = "inserted" /\ answer.acknowledged
    /\ result.response.status = "ok"
    /\ Prop(result.response.data, created_at) = DateVal(clock)
    /\ Prop(result.response.data, updated_at) = DateVal(clock)
    /\ HasKey(result.response.data.ent, count)

====
